---- MODULE Spec2Model ----
(***************************************************************************)
(* Model of the civitai scraper: the reconciler of MetadataScraper         *)
(* (scrape_full_metadata.py), the fetcher and the cursor crawl of          *)
(* CivitaiAPIWrapper (src/model/civitai_api_wrapper.py), the resolver of   *)
(* local model files (src/civitai_api_wrapper.py, enrich_model_folder.py)  *)
(* and the record classes of src/database/data_model.py.                   *)
(*                                                                         *)
(* Encoding: an optional value is a sequence of length 0 or 1; a missing   *)
(* "id" key of an entry is the id NoId; a table is the sequence of its     *)
(* rows in insertion order and a row's position is its primary key.        *)
(***************************************************************************)
EXTENDS Integers, Sequences, FiniteSets, TLC

VARIABLES modelTable, imageTable, disk, image_folder,
          last, sameAsPrev,
          pc, asset_type, next_url, current_try, batchLeft, pageNo, scenario,
          driver, result, document, first_try, gets, answer, fetched, rested, response_path,
          waits, calls,
          rpc, impl, model_file_path, flags, hash_file, version_file, model_file,
          hash, model_version_metadata, model_metadata, image_path, returned,
          hashed, exc, issued,
          logger, images, image_file, dpc, tries, requested, outages, probed, warned

vars == <<modelTable, imageTable, disk, image_folder, last, sameAsPrev,
          pc, asset_type, next_url, current_try, batchLeft, pageNo, scenario,
          driver, result, document, first_try, gets, answer, fetched, rested, response_path,
          waits, calls,
          rpc, impl, model_file_path, flags, hash_file, version_file, model_file,
          hash, model_version_metadata, model_metadata, image_path, returned,
          hashed, exc, issued,
          logger, images, image_file, dpc, tries, requested, outages, probed, warned>>

storeVars == <<modelTable, imageTable, disk>>
crawlVars == <<pc, asset_type, next_url, current_try, batchLeft, pageNo>>
fetchVars == <<first_try, gets, answer, fetched, rested, response_path, waits>>
collectVars == <<driver, result, document>>
callVars == <<pc, current_try, first_try, gets, answer, fetched, rested, waits>>
sidecarVars == <<hash_file, version_file, model_file>>
localVars == <<hash, model_version_metadata, model_metadata, image_path, returned,
               hashed, exc>>
downloadVars == <<logger, images, image_file, dpc, tries, requested, outages, probed, warned>>
resolveVars == <<rpc, impl, model_file_path, flags, sidecarVars, localVars, issued,
                 downloadVars>>
scraperVars == <<storeVars, image_folder, last, sameAsPrev, asset_type, next_url,
                 batchLeft, pageNo, scenario, collectVars, response_path>>

(***************************************************************************)
(* Bounds of the model.                                                    *)
(***************************************************************************)
NumImages == 2
MaxVersionId == 2
MaxItems == 2
MaxPages == 2

(***************************************************************************)
(* Remote entries.  A remote record is observed in one of two revisions;   *)
(* the revision stands for the content of its top-level fields and of the  *)
(* versions it carries.                                                    *)
(***************************************************************************)
NoId == 0
\* the model whose url is reconciled
ModelIds == {1}
ImageIds == 1..NumImages
VersionIds == 1..MaxVersionId
Revs == {"r0", "r1"}

\* the version ids of a modelVersions list
VersionIdSet(mvs) == {mvs[i].id : i \in DOMAIN mvs}

\* the orders in which a remote record lists version ids: no id twice
IdSeqs ==
    {s \in UNION {[1..n -> VersionIds] : n \in 0..MaxVersionId} :
        \A i, j \in DOMAIN s : s[i] = s[j] => i = j}

ModelEntry(id, rev, ids) ==
    [id |-> id, rev |-> rev,
     modelVersions |-> [i \in DOMAIN ids |-> [id |-> ids[i], rev |-> rev]]]

ModelEntries == {ModelEntry(id, rev, ids) : id \in ModelIds, rev \in Revs, ids \in IdSeqs}

\* an image entry: its id (NoId: the key is missing) and its content; the
\* file name its "url" ends with is that of the image
ImageEntries == [id : ImageIds \cup {NoId}, rev : Revs]

\* a model catalog item without an "id" key
MalformedEntry == ModelEntry(NoId, "r0", <<>>)

(***************************************************************************)
(* Record classes and the store.                                           *)
(***************************************************************************)
\* the columns of the record classes: the primary key of Model is named
\* uuid, that of Image id
Columns(variant) ==
    IF variant = "model"
    THEN {"uuid", "url", "source", "data", "state", "created", "updated", "inactive"}
    ELSE {"id", "url", "source", "data", "path", "state", "created", "updated", "inactive"}

\* variation: every attribute read succeeds, as if the record classes
\* shared the name of their primary key
HasAttr_any(variant, name) == TRUE

\* reading attribute name of a record of the variant succeeds
HasAttr(variant, name) == name \in Columns(variant)

\* the rows of a table whose url is the given one, in table order
get_objects_by_filtermasks(table, url) ==
    SelectSeq([i \in DOMAIN table |-> [key |-> i, row |-> table[i]]],
              LAMBDA o : o.row.url = url)

\* variation: the url column is not declared unique
UniqueUrlHolds_off(table, url) == TRUE

\* the url column is unique: an insert of a stored url is rejected
UniqueUrlHolds(table, url) == \A i \in DOMAIN table : table[i].url # url

post_object(table, row) == Append(table, row)

patch_object(table, key, data) == [table EXCEPT ![key].data = data]

\* the urls under which the crawl stores an entry
ModelUrl(id) == <<"models", id>>
ImageUrl(id) == <<"images", id>>

(***************************************************************************)
(* Reconciler.                                                             *)
(***************************************************************************)
\* the loop of post_or_patch_model_entry over the stored versions, from
\* position i on: a stored version whose id the entry lacks is appended
RECURSIVE Graft(_, _, _)
Graft(reference, i, mvs) ==
    IF i > Len(reference) THEN mvs
    ELSE Graft(reference, i + 1,
               IF \E j \in DOMAIN mvs : mvs[j].id = reference[i].id
               THEN mvs
               ELSE Append(mvs, reference[i]))

\* last is the record of the latest reconciliation of the running batch or
\* driver; NoCall when there is none
NoCall == [variant |-> "none", url |-> <<>>, entry |-> MalformedEntry,
           merged |-> MalformedEntry, before |-> <<>>, wrote |-> "none",
           raised |-> "none", downloaded |-> FALSE]

\* the outcome of one call: the table after it, the entry as the call leaves
\* it, the write it issued, the exception it raised
Outcome(table, entry, wrote, raised) ==
    [table |-> table, entry |-> entry, wrote |-> wrote, raised |-> raised]

\* variation: an existing record is overwritten with the incoming entry
post_or_patch_model_entry_overwrite(table, url, entry, storeOk) ==
    LET obj == get_objects_by_filtermasks(table, url) IN
    IF obj # <<>>
    THEN Outcome(patch_object(table, obj[1].key, entry), entry, "patch", "none")
    ELSE IF ~storeOk \/ ~UniqueUrlHolds(table, url)
         THEN Outcome(table, entry, "insert", "StoreError")
         ELSE Outcome(post_object(table, [url |-> url, source |-> "civitai.com",
                                          data |-> entry, state |-> "full"]),
                      entry, "insert", "none")

\* variation: the insert leaves the state of the record to the store
post_or_patch_model_entry_nostate(table, url, entry, storeOk) ==
    LET obj == get_objects_by_filtermasks(table, url) IN
    IF obj # <<>>
    THEN LET reference_entry == obj[1].row.data
             mvs == Graft(reference_entry.modelVersions, 1, entry.modelVersions)
             patched == Len(mvs) > Len(entry.modelVersions)
             merged == [entry EXCEPT !.modelVersions = mvs]
         IN  IF ~patched THEN Outcome(table, merged, "none", "none")
             ELSE IF ~HasAttr("model", "id")
                  THEN Outcome(table, merged, "none", "AttributeError")
             ELSE IF ~storeOk
                  THEN Outcome(table, merged, "patch", "StoreError")
             ELSE Outcome(patch_object(table, obj[1].key, merged), merged,
                          "patch", "none")
    ELSE IF ~storeOk \/ ~UniqueUrlHolds(table, url)
         THEN Outcome(table, entry, "insert", "StoreError")
         ELSE Outcome(post_object(table, [url |-> url, source |-> "civitai.com",
                                          data |-> entry, state |-> "unset"]),
                      entry, "insert", "none")

\* lines 74-102: the lookup by url; for a record, the graft of the stored
\* versions the entry lacks and, after a graft, the patch, whose key is read
\* as obj[0].id; for no record, the insert.  storeOk: the store accepts the
\* write
post_or_patch_model_entry(table, url, entry, storeOk) ==
    LET obj == get_objects_by_filtermasks(table, url) IN
    IF obj # <<>>
    THEN LET reference_entry == obj[1].row.data
             mvs == Graft(reference_entry.modelVersions, 1, entry.modelVersions)
             patched == Len(mvs) > Len(entry.modelVersions)
             merged == [entry EXCEPT !.modelVersions = mvs]
         IN  IF ~patched THEN Outcome(table, merged, "none", "none")
             ELSE IF ~HasAttr("model", "id")
                  THEN Outcome(table, merged, "none", "AttributeError")
             ELSE IF ~storeOk
                  THEN Outcome(table, merged, "patch", "StoreError")
             ELSE Outcome(patch_object(table, obj[1].key, merged), merged,
                          "patch", "none")
    ELSE IF ~storeOk \/ ~UniqueUrlHolds(table, url)
         THEN Outcome(table, entry, "insert", "StoreError")
         ELSE Outcome(post_object(table, [url |-> url, source |-> "civitai.com",
                                          data |-> entry, state |-> "full"]),
                      entry, "insert", "none")

\* the download of save_image_to_disk: the file is named after the last
\* segment of the image's url
save_image_to_disk(files, entry) == files \cup {entry.id}

ImageOutcome(table, files, wrote, raised, downloaded) ==
    [table |-> table, disk |-> files, wrote |-> wrote, raised |-> raised,
     downloaded |-> downloaded]

\* variation: the insert is issued without the lookup
post_or_patch_image_entry_nolookup(table, files, folder, url, entry, storeOk, dlOk) ==
    IF entry.id = NoId
    THEN ImageOutcome(table, files, "none", "KeyError", FALSE)
    ELSE IF ~storeOk \/ ~UniqueUrlHolds(table, url)
         THEN ImageOutcome(table, files, "insert", "StoreError", FALSE)
         ELSE ImageOutcome(
                  post_object(table, [url |-> url, source |-> "civitai.com",
                                      data |-> entry, path |-> <<>>,
                                      state |-> "full"]),
                  files, "insert", "none", FALSE)

\* variation: an existing image record is patched with the incoming entry
post_or_patch_image_entry_patch(table, files, folder, url, entry, storeOk, dlOk) ==
    LET obj == get_objects_by_filtermasks(table, url) IN
    IF obj # <<>>
    THEN ImageOutcome(patch_object(table, obj[1].key, entry), files, "patch",
                      "none", FALSE)
    ELSE IF entry.id = NoId
         THEN ImageOutcome(table, files, "none", "KeyError", FALSE)
         ELSE ImageOutcome(
                  post_object(table, [url |-> url, source |-> "civitai.com",
                                      data |-> entry, path |-> <<>>,
                                      state |-> "full"]),
                  files, "insert", "none", FALSE)

\* lines 120-143: for no record, the message with entry['id'], the download
\* when an image folder is set, the insert; for a record, nothing.  dlOk: the
\* download succeeds
post_or_patch_image_entry(table, files, folder, url, entry, storeOk, dlOk) ==
    LET obj == get_objects_by_filtermasks(table, url) IN
    IF obj # <<>> THEN ImageOutcome(table, files, "none", "none", FALSE)
    ELSE IF entry.id = NoId
         THEN ImageOutcome(table, files, "none", "KeyError", FALSE)
    ELSE IF folder # <<>> /\ ~dlOk
         THEN ImageOutcome(table, files, "none", "DownloadError", FALSE)
    ELSE LET saved == folder # <<>>
             files2 == IF saved THEN save_image_to_disk(files, entry) ELSE files
             file_path == IF saved THEN <<entry.id>> ELSE <<>>
         IN  IF ~storeOk \/ ~UniqueUrlHolds(table, url)
             THEN ImageOutcome(table, files2, "insert", "StoreError", saved)
             ELSE ImageOutcome(
                      post_object(table, [url |-> url, source |-> "civitai.com",
                                          data |-> entry, path |-> file_path,
                                          state |-> "full"]),
                      files2, "insert", "none", saved)

(***************************************************************************)
(* The calls, as steps of the program.                                     *)
(***************************************************************************)
First(obj) == IF obj = <<>> THEN <<>> ELSE <<obj[1].row>>

\* the record of a call of post_or_patch_model_entry and its effect
ModelCall(url, entry, storeOk) ==
    LET out == post_or_patch_model_entry(modelTable, url, entry, storeOk) IN
    /\ modelTable' = out.table
    /\ last' = [variant |-> "model", url |-> url, entry |-> entry,
                merged |-> out.entry,
                before |-> First(get_objects_by_filtermasks(modelTable, url)),
                wrote |-> out.wrote, raised |-> out.raised,
                downloaded |-> FALSE]
    /\ sameAsPrev' = (last.variant = "model" /\ last.url = url /\ last.entry = entry)
    /\ UNCHANGED <<imageTable, disk>>

ImageCall(url, entry, storeOk, dlOk) ==
    LET out == post_or_patch_image_entry(imageTable, disk, image_folder, url,
                                         entry, storeOk, dlOk) IN
    /\ imageTable' = out.table
    /\ disk' = out.disk
    /\ last' = [variant |-> "image", url |-> url, entry |-> entry,
                merged |-> entry,
                before |-> First(get_objects_by_filtermasks(imageTable, url)),
                wrote |-> out.wrote, raised |-> out.raised,
                downloaded |-> out.downloaded]
    /\ sameAsPrev' = (last.variant = "image" /\ last.url = url /\ last.entry = entry)
    /\ UNCHANGED modelTable

\* a driver reconciles a model entry under the url of its id
ReconcileModel ==
    /\ pc = "idle"
    /\ driver \in {"scraper", "import"}
    /\ asset_type = "models"
    /\ \E entry \in ModelEntries, storeOk \in BOOLEAN :
           ModelCall(ModelUrl(entry.id), entry, storeOk)
    /\ UNCHANGED <<image_folder, crawlVars, scenario, fetchVars, collectVars>>
    /\ UNCHANGED <<resolveVars, calls>>

\* a driver reconciles an image entry: under the url of its id, or under
\* any url when the entry has no id
ReconcileImage ==
    /\ pc = "idle"
    /\ driver \in {"scraper", "import"}
    /\ asset_type = "images"
    /\ \E entry \in ImageEntries, i \in ImageIds, storeOk \in BOOLEAN, dlOk \in BOOLEAN :
           /\ entry.id # NoId => i = entry.id
           /\ ImageCall(ImageUrl(i), entry, storeOk, dlOk)
    /\ UNCHANGED <<image_folder, crawlVars, scenario, fetchVars, collectVars>>
    /\ UNCHANGED <<resolveVars, calls>>

(***************************************************************************)
(* Import of response files: import_response_file and get_url_for_asset.   *)
(***************************************************************************)
\* the parts of entry["url"] of an image entry: the host of the image
\* server, the folder of the image, a width and the file name
EntryUrl(entry) ==
    <<[part |-> "image.civitai.com", id |-> NoId], [part |-> "folder", id |-> entry.id],
      [part |-> "width=", id |-> NoId], [part |-> "file", id |-> entry.id]>>

\* lines 145-156: the url of a model is built from its id, the url of an
\* image is entry["url"] without the parts that start with "width="
get_url_for_asset(type, entry) ==
    IF type = "models" THEN ModelUrl(entry.id)
    ELSE SelectSeq(EntryUrl(entry), LAMBDA x : x.part # "width=")

\* what a response file holds: a document with "items", a document with
\* "id" and no "items", or neither
Shapes == {"items", "id", "other"}

\* lines 164-185: the file is loaded; for a document with "items" the loop
\* over them is entered; for a document with "id" the url is built from
\* the name entry, which is not bound, and the handler of the bare except
\* reads the same name; any other document is reported
import_response_file ==
    /\ driver = "import"
    /\ pc = "idle"
    /\ \E shape \in Shapes, n \in 0..MaxItems :
          IF shape = "items" /\ n > 0
          THEN /\ pc' = "import"
               /\ batchLeft' = n
               /\ last' = NoCall
          ELSE /\ UNCHANGED <<pc, batchLeft>>
               /\ last' = [NoCall EXCEPT !.raised =
                              (IF shape = "items" THEN "none" ELSE "NameError")]
    /\ sameAsPrev' = FALSE
    /\ UNCHANGED <<storeVars, image_folder, asset_type, next_url, current_try, pageNo,
                   scenario, fetchVars, collectVars>>
    /\ UNCHANGED <<resolveVars, calls>>

\* lines 176-178 and 184-185: an item of the file is reconciled under the
\* url of get_url_for_asset; an exception ends the loop
import_item ==
    /\ driver = "import"
    /\ pc = "import"
    /\ IF asset_type = "models"
       THEN \E entry \in ModelEntries, storeOk \in BOOLEAN :
               ModelCall(get_url_for_asset("models", entry), entry, storeOk)
       ELSE \E entry \in ImageEntries, storeOk \in BOOLEAN, dlOk \in BOOLEAN :
               ImageCall(get_url_for_asset("images", entry), entry, storeOk, dlOk)
    /\ batchLeft' = (IF last'.raised # "none" THEN 0 ELSE batchLeft - 1)
    /\ pc' = (IF batchLeft' = 0 THEN "idle" ELSE "import")
    /\ UNCHANGED <<image_folder, asset_type, next_url, current_try, pageNo,
                   scenario, fetchVars, collectVars>>
    /\ UNCHANGED <<resolveVars, calls>>

(***************************************************************************)
(* Cursor crawl.                                                           *)
(***************************************************************************)
max_tries == 3
\* the current_try a call without the argument runs with
default_try == 3

NoScenario == <<>>

\* the parameters a page url may carry in its query besides the cursor
Params == {"limit", "nsfw"}

Range(q) == {q[i] : i \in DOMAIN q}

\* the query strings of a url: each parameter at most once, in any order
Queries == {<<>>} \cup {<<x>> : x \in Params}
               \cup {q \in Params \X Params : q[1] # q[2]}

\* the queries of the urls a crawl meets: any for the crawl of the wrapper
\* alone; the scraper is run against a remote that writes "limit" before
\* "nsfw"
CursorQueries ==
    IF driver = "scraper" THEN {<<>>, <<"limit">>, <<"limit", "nsfw">>} ELSE Queries

\* a page url: the page of the cursor chain it addresses and the parameters
\* of its query in the order of the string
PageUrl(page, query) == [page |-> page, query |-> query]

\* lines 106-108: the url the crawl starts at without start_url
DefaultUrl == PageUrl(1, <<"nsfw", "limit">>)

\* the nextPage values the remote may send with a page: none on any page,
\* the next page of the chain while the chain goes on
NextPages(page) ==
    IF scenario # NoScenario
    THEN (IF page = 1 THEN {<<PageUrl(2, <<"limit", "nsfw">>)>>} ELSE {<<>>})
    ELSE {<<>>} \cup (IF page < MaxPages
                      THEN {<<PageUrl(page + 1, q)>> : q \in CursorQueries}
                      ELSE {})

\* the item counts of a page
ItemCounts == IF scenario # NoScenario THEN {1} ELSE 0..MaxItems

\* the answers of the remote to one GET
Responses ==
    IF scenario # NoScenario THEN {"document"}
    ELSE {"document", "error", "undecodable", "ConnectionError"}

\* whether the write of the raw response to response_path succeeds
SaveAnswers == IF scenario # NoScenario THEN {TRUE} ELSE BOOLEAN

\* the items a page of the remote may hold at the position being iterated
Items ==
    IF scenario # NoScenario
    THEN {IF pageNo = 1 THEN scenario[1].page1 ELSE scenario[1].page2}
    ELSE IF asset_type = "models" THEN ModelEntries \cup {MalformedEntry}
    ELSE ImageEntries

\* whether the store may fail a write
StoreAnswers == IF scenario # NoScenario THEN {TRUE} ELSE BOOLEAN

\* variation: only "&nsfw=true" is appended
Normalise_nsfwonly(next) ==
    IF next = <<>> THEN <<>>
    ELSE LET q1 == next[1].query
             q2 == IF "nsfw" \notin Range(q1) THEN Append(q1, "nsfw") ELSE q1
         IN  <<PageUrl(next[1].page, q2)>>

\* lines 116-121 of collect_assets_via_api: "&limit=100" and "&nsfw=true"
\* are appended to a cursor whose string lacks "limit=" and "nsfw="
Normalise(next) ==
    IF next = <<>> THEN <<>>
    ELSE LET q1 == IF "limit" \notin Range(next[1].query)
                   THEN Append(next[1].query, "limit") ELSE next[1].query
             q2 == IF "nsfw" \notin Range(q1) THEN Append(q1, "nsfw") ELSE q1
         IN  <<PageUrl(next[1].page, q2)>>

\* lines 103-111: collect_assets_via_api up to its first GET: the url is
\* start_url or the default endpoint, the wait, the call with current_try=1
collect_assets_via_api(start_url) ==
    /\ next_url' = (IF start_url # <<>> THEN start_url ELSE <<DefaultUrl>>)
    /\ pageNo' = next_url'[1].page
    /\ pc' = "fetch"
    /\ current_try' = 1
    /\ first_try' = 1
    /\ gets' = 0
    /\ waits' = <<>>
    /\ answer' = "none"
    /\ fetched' = "none"
    /\ rested' = TRUE
    /\ batchLeft' = 0
    /\ document' = <<>>

\* the start urls a crawl is given
StartUrls ==
    {<<>>} \cup (IF scenario # NoScenario THEN {}
                 ELSE {<<PageUrl(p, q)>> : p \in 1..MaxPages, q \in CursorQueries})

\* scrape_to_database up to the first GET: the crawl runs with the callback
\* of the scraper
scrape_to_database ==
    /\ driver = "scraper"
    /\ pc \in (IF scenario # NoScenario THEN {"idle"} ELSE {"idle", "done", "raised"})
    /\ \E start_url \in StartUrls : collect_assets_via_api(start_url)
    /\ last' = NoCall
    /\ sameAsPrev' = FALSE
    /\ UNCHANGED <<storeVars, image_folder, asset_type, scenario, driver, result,
                   response_path>>
    /\ UNCHANGED <<resolveVars, calls>>

\* lines 87-93: scrape_available_asset_metadata without a callback up to the
\* first GET: the crawl runs with the callback that collects into result
scrape_available_asset_metadata ==
    /\ driver = "collect"
    /\ pc \in {"idle", "done", "raised"}
    /\ \E start_url \in StartUrls : collect_assets_via_api(start_url)
    /\ result' = <<>>
    /\ UNCHANGED <<storeVars, image_folder, asset_type, scenario, driver,
                   response_path, last, sameAsPrev>>
    /\ UNCHANGED <<resolveVars, calls>>

\* variation: the retry test admits one more attempt
GET_onemore(resp, saveOk, try, path) ==
    IF resp = "ConnectionError" THEN [kind |-> "raise", data |-> "none"]
    ELSE IF resp = "undecodable"
         THEN IF try <= max_tries THEN [kind |-> "retry", data |-> "none"]
              ELSE [kind |-> "return", data |-> "EmptyDict"]
    ELSE IF resp = "error" THEN [kind |-> "return", data |-> "None"]
    ELSE IF path # <<>> /\ ~saveOk THEN [kind |-> "raise", data |-> "none"]
    ELSE [kind |-> "return", data |-> "document"]

\* variation: a document with "error" is tried again like an undecodable body
GET_errorretry(resp, saveOk, try, path) ==
    IF resp = "ConnectionError" THEN [kind |-> "raise", data |-> "none"]
    ELSE IF resp \in {"undecodable", "error"}
         THEN IF try < max_tries THEN [kind |-> "retry", data |-> "none"]
              ELSE [kind |-> "return", data |-> "EmptyDict"]
    ELSE IF path # <<>> /\ ~saveOk THEN [kind |-> "raise", data |-> "none"]
    ELSE [kind |-> "return", data |-> "document"]

\* lines 136-154: one GET of safely_fetch_api_data and what the call does
\* with the answer: an exception of the transport or of the write of the
\* raw response leaves the call, an undecodable body is tried again while
\* current_try < max_tries and gives {} after that, a document with "error"
\* gives None, any other document is returned
GET(resp, saveOk, try, path) ==
    IF resp = "ConnectionError" THEN [kind |-> "raise", data |-> "none"]
    ELSE IF resp = "undecodable"
         THEN IF try < max_tries THEN [kind |-> "retry", data |-> "none"]
              ELSE [kind |-> "return", data |-> "EmptyDict"]
    ELSE IF resp = "error" THEN [kind |-> "return", data |-> "None"]
    ELSE IF path # <<>> /\ ~saveOk THEN [kind |-> "raise", data |-> "none"]
    ELSE [kind |-> "return", data |-> "document"]

\* variation: the wait is doubled from retry to retry
RetryWait_doubling(i, k) == (IF i = "script" THEN 2 ELSE 1) * 2 ^ (k - 1)

\* the sleep before the k-th retry of a call, in units of self.wait:
\* sleep(self.wait*2) in the wrapper of src/model, sleep(self.wait) in the
\* wrapper of src/civitai_api_wrapper.py
RetryWait(i, k) == IF i = "script" THEN 2 ELSE 1

\* a caller of safely_fetch_api_data other than the crawl: the url (kept in
\* next_url), current_try = 1 or the default of the signature, with or
\* without a wait before the call
fetch_call ==
    /\ driver = "fetch"
    /\ pc \in {"idle", "returned", "raised"}
    /\ \E url \in StartUrls \ {<<>>}, try \in {1, default_try}, waited \in BOOLEAN :
          /\ next_url' = url
          /\ current_try' = try
          /\ first_try' = try
          /\ rested' = waited
    /\ pc' = "get"
    /\ gets' = 0
    /\ waits' = <<>>
    /\ answer' = "none"
    /\ fetched' = "none"
    /\ UNCHANGED <<storeVars, image_folder, last, sameAsPrev, asset_type, batchLeft,
                   pageNo, scenario, collectVars, response_path>>
    /\ UNCHANGED <<resolveVars, calls>>

\* lines 114-122: the document of the page under the callback, as far as
\* the loop reads it: the cursor of its metadata and the number of its
\* items; it is kept for the crawl of the wrapper alone
Document(nextPage, n) ==
    IF driver = "collect" THEN <<[nextPage |-> nextPage, items |-> n]>> ELSE <<>>

\* lines 111-124: collect_assets_via_api takes the result of the call: a
\* dict is read for its "metadata" (which {} has not), its cursor is
\* completed and the callback is called; any other value ends the loop
TakeResult(out) ==
    IF out.kind = "raise" THEN
        /\ pc' = "raised"
        /\ UNCHANGED <<next_url, batchLeft, document>>
    ELSE IF out.data = "EmptyDict" THEN
        /\ pc' = "raised"
        /\ next_url' = <<>>
        /\ UNCHANGED <<batchLeft, document>>
    ELSE IF out.data = "None" THEN
        /\ pc' = "done"
        /\ next_url' = <<>>
        /\ UNCHANGED <<batchLeft, document>>
    ELSE
        /\ \E n \in ItemCounts, nextPage \in NextPages(pageNo) :
              /\ document' = Document(nextPage, n)
              /\ next_url' = Normalise(nextPage)
              /\ batchLeft' = n
        /\ pc' = "callback"

\* one GET of safely_fetch_api_data; pc = "fetch": the call of the crawl,
\* whose result collect_assets_via_api takes at once, answer and fetched
\* keeping what ended the crawl; pc = "get": the call of another caller, to
\* whom the result is left in fetched
safely_fetch_api_data ==
    /\ pc \in {"fetch", "get"}
    /\ \E resp \in Responses :
       \E saveOk \in (IF resp = "document" THEN SaveAnswers ELSE {TRUE}) :
         LET out == GET(resp, saveOk, current_try, response_path) IN
         IF out.kind = "retry"
         THEN /\ current_try' = current_try + 1
              /\ gets' = gets + 1
              /\ waits' = Append(waits, RetryWait(impl, Len(waits) + 1))
              /\ answer' = resp
              /\ rested' = TRUE
              /\ UNCHANGED <<pc, next_url, batchLeft, fetched, document>>
         ELSE /\ rested' = FALSE
              /\ UNCHANGED current_try
              /\ IF pc = "fetch"
                 THEN /\ TakeResult(out)
                      /\ gets' = 0
                      /\ waits' = <<>>
                      /\ answer' = (IF pc' = "callback" THEN "none" ELSE resp)
                      /\ fetched' = (IF pc' = "callback" THEN "none" ELSE out.data)
                 ELSE /\ pc' = (IF out.kind = "raise" THEN "raised" ELSE "returned")
                      /\ gets' = gets + 1
                      /\ answer' = resp
                      /\ fetched' = out.data
                      /\ UNCHANGED <<next_url, batchLeft, document, waits>>
    /\ UNCHANGED <<storeVars, image_folder, asset_type, pageNo, last, sameAsPrev,
                   scenario, driver, result, first_try, response_path>>
    /\ UNCHANGED <<resolveVars, calls>>

\* the handler of the callback logs through the module global "wrapper",
\* which the main block of the script binds before the crawl starts
WrapperBound == TRUE

\* line 65: the handler of the callback reads the global and formats
\* entry['id'] into its message
HandlerRaises(entry) == ~WrapperBound \/ entry.id = NoId

\* variation: the loop of the callback has no try/except
Escapes_uncaught(entry, raised) == raised # "none"

\* the callback is left by an exception of the item
Escapes(entry, raised) == raised # "none" /\ HandlerRaises(entry)

\* the call for the entry reaches a write of the store: only then the
\* store has an answer to give
ModelWrites(entry) ==
    post_or_patch_model_entry(modelTable, ModelUrl(entry.id), entry, TRUE).wrote # "none"

ImageWrites(entry) ==
    post_or_patch_image_entry(imageTable, disk, image_folder, ImageUrl(entry.id),
                              entry, TRUE, TRUE).wrote # "none"

StoreAnswersFor(writes) == IF writes THEN StoreAnswers ELSE {TRUE}

\* the download has an answer only when the call reaches it
DownloadAnswersFor(writes) ==
    IF writes /\ image_folder # <<>> THEN BOOLEAN ELSE {TRUE}

\* one iteration of the loop of callback: the url of the item, the
\* reconciliation of the item, the handler
callback ==
    /\ pc = "callback"
    /\ driver = "scraper"
    /\ batchLeft > 0
    /\ \E entry \in Items :
          IF entry.id = NoId
          THEN /\ last' = [NoCall EXCEPT !.variant = asset_type, !.entry = entry,
                                         !.merged = entry, !.raised = "KeyError"]
               /\ sameAsPrev' = FALSE
               /\ UNCHANGED storeVars
          ELSE IF asset_type = "models"
               THEN \E storeOk \in StoreAnswersFor(ModelWrites(entry)) :
                       ModelCall(ModelUrl(entry.id), entry, storeOk)
               ELSE \E dlOk \in DownloadAnswersFor(ImageWrites(entry)) :
                    \E storeOk \in StoreAnswersFor(dlOk /\ ImageWrites(entry)) :
                       ImageCall(ImageUrl(entry.id), entry, storeOk, dlOk)
    /\ IF Escapes(last'.entry, last'.raised)
       THEN pc' = "raised" /\ UNCHANGED batchLeft
       ELSE pc' = "callback" /\ batchLeft' = batchLeft - 1
    /\ UNCHANGED <<image_folder, asset_type, next_url, current_try, pageNo, scenario,
                   fetchVars, collectVars>>
    /\ UNCHANGED <<resolveVars, calls>>

\* variation: the callback is called a second time with the same items
collect_twice ==
    /\ pc = "callback"
    /\ driver = "collect"
    /\ batchLeft > 0
    /\ result' = result \o [i \in 1..(2 * batchLeft) |-> pageNo]
    /\ batchLeft' = 0
    /\ UNCHANGED <<storeVars, image_folder, last, sameAsPrev, pc, asset_type,
                   next_url, current_try, pageNo, scenario, fetchVars, driver,
                   document>>
    /\ UNCHANGED <<resolveVars, calls>>

\* lines 89-91: the callback that collects: the items of the page, each
\* written as the page it came with, are added to result
collect ==
    /\ pc = "callback"
    /\ driver = "collect"
    /\ batchLeft > 0
    /\ result' = result \o [i \in 1..batchLeft |-> pageNo]
    /\ batchLeft' = 0
    /\ UNCHANGED <<storeVars, image_folder, last, sameAsPrev, pc, asset_type,
                   next_url, current_try, pageNo, scenario, fetchVars, driver,
                   document>>
    /\ UNCHANGED <<resolveVars, calls>>

\* variation: the loop ends after the first page whatever its cursor
callback_return_capped ==
    /\ pc = "callback"
    /\ batchLeft = 0
    /\ pc' = "done"
    /\ last' = NoCall
    /\ sameAsPrev' = FALSE
    /\ document' = <<>>
    /\ UNCHANGED <<storeVars, image_folder, asset_type, next_url, batchLeft, scenario,
                   driver, result, first_try, gets, answer, fetched, response_path, waits,
                   current_try, pageNo, rested>>
    /\ UNCHANGED <<resolveVars, calls>>

\* the callback returns and the loop of collect_assets_via_api tests next_url
callback_return ==
    /\ pc = "callback"
    /\ batchLeft = 0
    /\ IF next_url # <<>>
       THEN /\ pc' = "fetch"
            /\ current_try' = 1
            /\ pageNo' = next_url[1].page
            /\ rested' = TRUE
       ELSE /\ pc' = "done"
            /\ UNCHANGED <<current_try, pageNo, rested>>
    /\ last' = NoCall
    /\ sameAsPrev' = FALSE
    /\ document' = <<>>
    /\ UNCHANGED <<storeVars, image_folder, asset_type, next_url, batchLeft, scenario,
                   driver, result, first_try, gets, answer, fetched, response_path, waits>>
    /\ UNCHANGED <<resolveVars, calls>>

(***************************************************************************)
(* Resolver of local model files: download_data_for_model_file, as the     *)
(* method of src/civitai_api_wrapper.py (impl = "method") and as the       *)
(* function of enrich_model_folder.py (impl = "script").                   *)
(***************************************************************************)
MODEL_EXTENSIONS == {".safetensors", ".ckpt", ".pt", ".zip", ".pth"}

\* the extensions of the files a model folder holds
Extensions == {".CKPT", ".txt"}

\* file_extension.lower()
Lower(ext) == IF ext = ".CKPT" THEN ".ckpt" ELSE ext

\* variation: every extension passes
Allowed_any(ext) == TRUE

\* the test of the extension against the list
Allowed(ext) == Lower(ext) \in MODEL_EXTENSIONS

\* the paths the resolver is called with: whether a file is there, and the
\* extension of the name
Paths == [exists : BOOLEAN, ext : Extensions]

\* the keyword arguments of the call
Flags == [skip_filename_check : BOOLEAN, save_model_metadata : BOOLEAN,
          save_hash : BOOLEAN, save_cover_image : BOOLEAN]

\* the SHA-256 digest of the model file
Sha == "sha256"

\* the content of a hash sidecar that was not written by the resolver
Foreign == "foreign"

\* a value of model_version_metadata or model_metadata: not assigned yet,
\* None, {}, or a document; of a version document, whether its "files"
\* name the local file
Value(kind, name_ok) == [kind |-> kind, name_ok |-> name_ok]
Unset == Value("unset", FALSE)

\* the truth value of "if model_version_metadata"
Truthy(v) == v.kind = "document"

\* return None, None, None, None
AllAbsent == [hash |-> <<>>, model_version_metadata |-> Value("None", FALSE),
              model_metadata |-> Value("None", FALSE), image_path |-> "None"]

\* json_utility.load of a path no file is at: it raises or gives None
LoadMissing == {"raise", "None"}

InitResolver ==
    /\ rpc = "idle"
    /\ model_file_path = [exists |-> FALSE, ext |-> ".txt"]
    /\ flags = [skip_filename_check |-> TRUE, save_model_metadata |-> TRUE,
                save_hash |-> TRUE, save_cover_image |-> TRUE]
    /\ version_file = <<>>
    /\ model_file = <<>>
    /\ issued = {}
    /\ dpc = "idle"
    /\ tries = 0
    /\ requested = <<>>
    /\ outages = 0
    /\ probed = FALSE
    /\ warned = FALSE
    /\ hash = <<>>
    /\ model_version_metadata = Unset
    /\ model_metadata = Unset
    /\ image_path = "unbound"
    /\ returned = <<>>
    /\ hashed = FALSE
    /\ exc = "none"

\* variation: the hash is computed whether or not its sidecar exists
download_data_for_model_file_rehash ==
    /\ driver = "resolve"
    /\ rpc \in {"idle", "done", "raised"}
    /\ \E p \in Paths, f \in Flags :
          /\ model_file_path' = p
          /\ flags' = f
          /\ IF ~p.exists \/ ~Allowed(p.ext)
             THEN /\ rpc' = "done"
                  /\ returned' = <<AllAbsent>>
                  /\ hash' = <<>>
                  /\ hashed' = FALSE
                  /\ UNCHANGED hash_file
             ELSE /\ rpc' = "version"
                  /\ returned' = <<>>
                  /\ hash' = <<Sha>>
                  /\ hashed' = TRUE
                  /\ hash_file' = (IF f.save_hash THEN <<Sha>> ELSE hash_file)
    /\ model_version_metadata' = Unset
    /\ model_metadata' = Unset
    /\ image_path' = "unbound"
    /\ exc' = "none"
    /\ issued' = {}
    /\ UNCHANGED <<impl, version_file, model_file, callVars, scraperVars, calls, downloadVars>>

\* the preconditions and the hash: a path that is no file or whose
\* extension is not in the list returns four None; else the hash is read
\* from its sidecar, or computed and, with save_hash, written to it
download_data_for_model_file ==
    /\ driver = "resolve"
    /\ rpc \in {"idle", "done", "raised"}
    /\ \E p \in Paths, f \in Flags :
          /\ model_file_path' = p
          /\ flags' = f
          /\ IF ~p.exists \/ ~Allowed(p.ext)
             THEN /\ rpc' = "done"
                  /\ returned' = <<AllAbsent>>
                  /\ hash' = <<>>
                  /\ hashed' = FALSE
                  /\ UNCHANGED hash_file
             ELSE /\ rpc' = "version"
                  /\ returned' = <<>>
                  /\ IF hash_file = <<>>
                     THEN /\ hash' = <<Sha>>
                          /\ hashed' = TRUE
                          /\ hash_file' = (IF f.save_hash THEN <<Sha>> ELSE <<>>)
                     ELSE /\ hash' = hash_file
                          /\ hashed' = FALSE
                          /\ UNCHANGED hash_file
    /\ model_version_metadata' = Unset
    /\ model_metadata' = Unset
    /\ image_path' = "unbound"
    /\ exc' = "none"
    /\ issued' = {}
    /\ UNCHANGED <<impl, version_file, model_file, callVars, scraperVars, calls, downloadVars>>

\* safely_fetch_api_data(url) is entered: current_try is the default, and
\* nothing waits before the call
\* variation: the fetcher is called with current_try = 1
Call_safely_fetch_api_data_firsttry ==
    /\ pc' = "get"
    /\ current_try' = 1
    /\ first_try' = 1
    /\ gets' = 0
    /\ waits' = <<>>
    /\ answer' = "none"
    /\ fetched' = "none"
    /\ UNCHANGED rested

Call_safely_fetch_api_data ==
    /\ pc' = "get"
    /\ current_try' = default_try
    /\ first_try' = default_try
    /\ gets' = 0
    /\ waits' = <<>>
    /\ answer' = "none"
    /\ fetched' = "none"
    /\ UNCHANGED rested

\* the result of the call is taken by the resolver
Taken ==
    /\ pc' = "idle"
    /\ gets' = 0
    /\ waits' = <<>>
    /\ answer' = "none"
    /\ fetched' = "none"
    /\ UNCHANGED <<current_try, first_try, rested>>

\* variation: the by-hash endpoint is fetched whether or not the sidecar
\* exists
handle_model_version_metadata_refetch ==
    /\ driver = "resolve"
    /\ rpc = "version"
    /\ Call_safely_fetch_api_data
    /\ rpc' = "version_fetch"
    /\ issued' = issued \cup {"version"}
    /\ UNCHANGED model_version_metadata
    /\ UNCHANGED <<impl, model_file_path, flags, sidecarVars, hash, model_metadata, image_path,
                   returned, hashed, exc, scraperVars, calls, downloadVars>>

\* "handle model version metadata": without the sidecar the by-hash
\* endpoint is fetched, else the sidecar is loaded
handle_model_version_metadata ==
    /\ driver = "resolve"
    /\ rpc = "version"
    /\ IF version_file = <<>>
       THEN /\ Call_safely_fetch_api_data
            /\ rpc' = "version_fetch"
            /\ issued' = issued \cup {"version"}
            /\ UNCHANGED model_version_metadata
       ELSE /\ model_version_metadata' = version_file[1]
            /\ rpc' = "model"
            /\ UNCHANGED <<callVars, issued>>
    /\ UNCHANGED <<impl, model_file_path, flags, sidecarVars, hash, model_metadata, image_path,
                   returned, hashed, exc, scraperVars, calls, downloadVars>>

\* the by-hash fetch has ended: a document is saved to the sidecar when the
\* file name check is skipped or passes
take_model_version_metadata ==
    /\ driver = "resolve"
    /\ rpc = "version_fetch"
    /\ pc \in {"returned", "raised"}
    /\ IF pc = "raised"
       THEN /\ rpc' = "raised"
            /\ exc' = "FetchError"
            /\ UNCHANGED <<model_version_metadata, version_file>>
       ELSE /\ \E name_ok \in (IF fetched = "document" THEN BOOLEAN ELSE {FALSE}) :
                 /\ model_version_metadata' = Value(fetched, name_ok)
                 /\ version_file' =
                       (IF fetched = "document" /\ (flags.skip_filename_check \/ name_ok)
                        THEN <<Value(fetched, name_ok)>> ELSE version_file)
            /\ rpc' = "model"
            /\ UNCHANGED exc
    /\ Taken
    /\ UNCHANGED <<impl, model_file_path, flags, hash_file, model_file, hash, model_metadata,
                   image_path, returned, hashed, scraperVars, calls, issued, downloadVars>>

\* "handle model metadata": without the sidecar and with version metadata
\* the model endpoint is fetched, else the sidecar is loaded
handle_model_metadata ==
    /\ driver = "resolve"
    /\ rpc = "model"
    /\ IF model_file = <<>> /\ Truthy(model_version_metadata)
       THEN /\ Call_safely_fetch_api_data
            /\ rpc' = "model_fetch"
            /\ issued' = issued \cup {"model"}
            /\ UNCHANGED <<model_metadata, exc>>
       ELSE /\ IF model_file # <<>>
               THEN /\ model_metadata' = model_file[1]
                    /\ rpc' = "image"
                    /\ UNCHANGED exc
               ELSE \E loaded \in LoadMissing :
                       IF loaded = "raise"
                       THEN /\ rpc' = "raised"
                            /\ exc' = "FileNotFoundError"
                            /\ UNCHANGED model_metadata
                       ELSE /\ model_metadata' = Value("None", FALSE)
                            /\ rpc' = "image"
                            /\ UNCHANGED exc
            /\ UNCHANGED <<callVars, issued>>
    /\ UNCHANGED <<impl, model_file_path, flags, sidecarVars, hash, model_version_metadata,
                   image_path, returned, hashed, scraperVars, calls, downloadVars>>

\* the fetch of the model endpoint has ended: a document is saved to the
\* sidecar with save_model_metadata
take_model_metadata ==
    /\ driver = "resolve"
    /\ rpc = "model_fetch"
    /\ pc \in {"returned", "raised"}
    /\ IF pc = "raised"
       THEN /\ rpc' = "raised"
            /\ exc' = "FetchError"
            /\ UNCHANGED <<model_metadata, model_file>>
       ELSE /\ model_metadata' = Value(fetched, FALSE)
            /\ model_file' = (IF fetched = "document" /\ flags.save_model_metadata
                              THEN <<Value(fetched, FALSE)>> ELSE model_file)
            /\ rpc' = "image"
            /\ UNCHANGED exc
    /\ Taken
    /\ UNCHANGED <<impl, model_file_path, flags, hash_file, version_file, hash,
                   model_version_metadata, image_path, returned, hashed, scraperVars, calls,
                   issued, downloadVars>>

(***************************************************************************)
(* Downloader of the cover image: download_image_for_model_file, as the    *)
(* method of src/civitai_api_wrapper.py and as the function of             *)
(* enrich_model_folder.py. images is the list of the non-video entries of  *)
(* model_version_metadata["images"], as far as the downloader reads it;    *)
(* image_file is the file at the path the image is downloaded to.          *)
(***************************************************************************)
IMG_WIDTHS == <<"1080", "720", "576", "480">>
IMG_EXTS == {".jpeg", ".jpg", ".png"}

\* the extensions of the image urls of the catalog
ImageExtensions == {".png", ".webp"}

\* an image entry: the extension of the last part of its url and whether the
\* url has a part that starts with "width="
ImageData == [ext : ImageExtensions, width_part : BOOLEAN]
Images == {<<>>} \cup {<<i>> : i \in ImageData}

\* the images of the version document the resolver is run on: the function
\* of enrich_model_folder.py never comes to read them
ResolverImages(i) ==
    IF i = "script" THEN {<<>>} ELSE {x \in Images : x = <<>> \/ x[1].width_part}

\* the wrapper of src/civitai_api_wrapper.py takes a logger or None, the
\* wrapper of src/model always makes one
Loggers(i) == IF i = "method" THEN BOOLEAN ELSE {TRUE}

\* the width in image_data["width"]
Native == "native"

\* fix_image_url: every part "width=..." becomes the given width, or the
\* width of the image entry without one; the value is the width the url
\* asks for, none for a url without such a part
fix_image_url(image_data, width) ==
    IF image_data.width_part
    THEN (IF width = <<>> THEN <<Native>> ELSE width)
    ELSE <<>>

\* image_utility.check_image_health: the file exists, is not empty and
\* decodes
check_image_health(file) == file = "healthy"

\* os.path.exists
exists(file) == file # "missing"

\* what a download leaves at the output path
Downloads == {"healthy", "corrupt", "kept"}
Written(file, out) == IF out = "kept" THEN file ELSE out

\* "if image_file_ext not in IMG_EXTS and self.logger"
Refused(image_data) == image_data.ext \notin IMG_EXTS /\ logger

\* lines 289-299 and 313-314: the entry of download_image_for_model_file:
\* without an image None is returned; a refused extension is warned of and
\* "return image_path" reads a name that was never bound; else the path is
\* built and the loop is entered
Call_download_image_for_model_file ==
    /\ tries' = 0
    /\ requested' = <<>>
    /\ outages' = 0
    /\ probed' = FALSE
    /\ IF images = <<>>
       THEN /\ dpc' = "returned"
            /\ image_path' = "None"
            /\ warned' = FALSE
            /\ exc' = "none"
       ELSE IF Refused(images[1])
       THEN /\ dpc' = "raised"
            /\ image_path' = "unbound"
            /\ warned' = TRUE
            /\ exc' = "UnboundLocalError"
       ELSE /\ dpc' = "loop"
            /\ image_path' = "image"
            /\ warned' = FALSE
            /\ exc' = "none"
    /\ UNCHANGED <<logger, images, image_file>>

\* a call of the downloader by itself
download_image_for_model_file ==
    /\ driver = "download"
    /\ dpc \in {"idle", "returned", "raised"}
    /\ Call_download_image_for_model_file
    /\ UNCHANGED <<rpc, impl, model_file_path, flags, sidecarVars, hash,
                   model_version_metadata, model_metadata, returned, hashed, issued,
                   callVars, scraperVars, calls>>

\* the width of the try: none at first, then IMG_WIDTHS[tries - 1]
Width(t) == IF t = 0 THEN <<>> ELSE <<IMG_WIDTHS[t]>>

\* variation: the file is downloaded without the health check
download_try_unchecked ==
    /\ dpc = "loop"
    /\ IF tries <= Len(IMG_WIDTHS)
       THEN /\ requested' = Append(requested, fix_image_url(images[1], Width(tries)))
            /\ \E out \in Downloads : image_file' = Written(image_file, out)
            /\ dpc' = "probe"
            /\ UNCHANGED image_path
       ELSE /\ image_path' = (IF exists(image_file) THEN "image" ELSE "None")
            /\ dpc' = "returned"
            /\ UNCHANGED <<requested, image_file>>
    /\ UNCHANGED <<logger, images, tries, outages, probed, warned, exc>>
    /\ UNCHANGED <<rpc, impl, model_file_path, flags, sidecarVars, hash,
                   model_version_metadata, model_metadata, returned, hashed, issued,
                   callVars, scraperVars, calls>>

\* variation: the first download is made before the file is looked at
download_try_eager ==
    /\ dpc = "loop"
    /\ IF (tries = 0 \/ ~check_image_health(image_file)) /\ tries <= Len(IMG_WIDTHS)
       THEN /\ requested' = Append(requested, fix_image_url(images[1], Width(tries)))
            /\ \E out \in Downloads : image_file' = Written(image_file, out)
            /\ dpc' = "probe"
            /\ UNCHANGED image_path
       ELSE /\ image_path' = (IF exists(image_file) THEN "image" ELSE "None")
            /\ dpc' = "returned"
            /\ UNCHANGED <<requested, image_file>>
    /\ UNCHANGED <<logger, images, tries, outages, probed, warned, exc>>
    /\ UNCHANGED <<rpc, impl, model_file_path, flags, sidecarVars, hash,
                   model_version_metadata, model_metadata, returned, hashed, issued,
                   callVars, scraperVars, calls>>

\* lines 300-305 and 311-313: the test of the loop; an unhealthy file with
\* tries <= len(IMG_WIDTHS) is downloaded again, at the width of the try;
\* else the loop is left and the path is kept if a file exists at it
download_try ==
    /\ dpc = "loop"
    /\ IF ~check_image_health(image_file) /\ tries <= Len(IMG_WIDTHS)
       THEN /\ requested' = Append(requested, fix_image_url(images[1], Width(tries)))
            /\ \E out \in Downloads : image_file' = Written(image_file, out)
            /\ dpc' = "probe"
            /\ UNCHANGED image_path
       ELSE /\ image_path' = (IF exists(image_file) THEN "image" ELSE "None")
            /\ dpc' = "returned"
            /\ UNCHANGED <<requested, image_file>>
    /\ UNCHANGED <<logger, images, tries, outages, probed, warned, exc>>
    /\ UNCHANGED <<rpc, impl, model_file_path, flags, sidecarVars, hash,
                   model_version_metadata, model_metadata, returned, hashed, issued,
                   callVars, scraperVars, calls>>

\* variation: the try is not counted after the probe
check_connection_uncounted ==
    /\ dpc \in {"probe", "wait"}
    /\ \E up \in BOOLEAN :
          IF up
          THEN /\ dpc' = "loop"
               /\ UNCHANGED <<tries, outages>>
          ELSE /\ dpc' = "wait"
               /\ outages' = (IF dpc = "probe" /\ ~check_image_health(image_file)
                               THEN outages + 1 ELSE outages)
               /\ UNCHANGED tries
    /\ probed' = TRUE
    /\ UNCHANGED <<logger, images, image_file, requested, warned, image_path, exc>>
    /\ UNCHANGED <<rpc, impl, model_file_path, flags, sidecarVars, hash,
                   model_version_metadata, model_metadata, returned, hashed, issued,
                   callVars, scraperVars, calls>>

\* what internet_utility.check_connection answers: the resolver is run with
\* a connection, the downloader by itself with or without one
Connections == IF driver = "resolve" THEN {TRUE} ELSE BOOLEAN

\* lines 303-310: download_asset returns None, so that the connection is
\* probed after every download: without one wait_for_connection is called
\* and the probe is made again, with one the try is counted. outages counts
\* the downloads that left an unhealthy file and were followed by a probe
\* without a connection
check_connection ==
    /\ dpc \in {"probe", "wait"}
    /\ \E up \in Connections :
          IF up
          THEN /\ tries' = tries + 1
               /\ dpc' = "loop"
               /\ UNCHANGED outages
          ELSE /\ dpc' = "wait"
               /\ outages' = (IF dpc = "probe" /\ ~check_image_health(image_file)
                               THEN outages + 1 ELSE outages)
               /\ UNCHANGED tries
    /\ probed' = TRUE
    /\ UNCHANGED <<logger, images, image_file, requested, warned, image_path, exc>>
    /\ UNCHANGED <<rpc, impl, model_file_path, flags, sidecarVars, hash,
                   model_version_metadata, model_metadata, returned, hashed, issued,
                   callVars, scraperVars, calls>>

\* "handle cover image": with save_cover_image and version metadata the
\* downloader is called, which the wrapper of src/model has not as a method
handle_cover_image ==
    /\ driver = "resolve"
    /\ rpc = "image"
    /\ IF flags.save_cover_image /\ Truthy(model_version_metadata)
       THEN IF impl = "script"
            THEN /\ rpc' = "raised"
                 /\ exc' = "AttributeError"
                 /\ UNCHANGED <<image_path, downloadVars>>
            ELSE /\ Call_download_image_for_model_file
                 /\ rpc' = "cover"
       ELSE /\ rpc' = "return"
            /\ UNCHANGED <<image_path, exc, downloadVars>>
    /\ UNCHANGED <<impl, model_file_path, flags, sidecarVars, hash, model_version_metadata,
                   model_metadata, returned, hashed, issued, callVars, scraperVars, calls>>

\* line 276: the return of the resolver reads image_path, which is bound
\* only by a call of the downloader that returned; the locals of the
\* downloader are gone by then
return_data ==
    /\ driver = "resolve"
    /\ \/ rpc = "return"
       \/ rpc = "cover" /\ dpc \in {"returned", "raised"}
    /\ IF rpc = "cover" /\ dpc = "raised"
       THEN /\ rpc' = "raised"
            /\ UNCHANGED <<returned, exc>>
       ELSE IF image_path = "unbound"
       THEN /\ rpc' = "raised"
            /\ exc' = "UnboundLocalError"
            /\ UNCHANGED returned
       ELSE /\ rpc' = "done"
            /\ returned' = <<[hash |-> hash,
                              model_version_metadata |-> model_version_metadata,
                              model_metadata |-> model_metadata,
                              image_path |-> image_path]>>
            /\ UNCHANGED exc
    /\ dpc' = "idle"
    /\ tries' = 0
    /\ requested' = <<>>
    /\ outages' = 0
    /\ probed' = FALSE
    /\ warned' = FALSE
    /\ UNCHANGED <<impl, model_file_path, flags, sidecarVars, hash, model_version_metadata,
                   model_metadata, image_path, hashed, issued, callVars, scraperVars, calls,
                   logger, images, image_file>>

(***************************************************************************)
(* Two invocations of post_or_patch_model_entry on one store, each from    *)
(* the callback of its own crawl: the lookup and the write of an           *)
(* invocation are two steps, and the other invocation may run between.     *)
(* The store they start on is empty or holds a record of an earlier crawl. *)
(***************************************************************************)
Invocations == {"a", "b"}

Other(p) == CHOOSE q \in Invocations : q # p

\* an invocation that has not started
NoInvocation == [at |-> "idle", entry |-> MalformedEntry, obj |-> <<>>,
                 merged |-> MalformedEntry, wrote |-> "none", raised |-> "none",
                 escaped |-> FALSE, overlap |-> FALSE]

\* variation: the key of the patch is read as the record class names it
write_after_lookup_keyed(table, obj, url, entry, storeOk) ==
    IF obj # <<>>
    THEN LET reference_entry == obj[1].row.data
             mvs == Graft(reference_entry.modelVersions, 1, entry.modelVersions)
             patched == Len(mvs) > Len(entry.modelVersions)
             merged == [entry EXCEPT !.modelVersions = mvs]
         IN  IF ~patched THEN Outcome(table, merged, "none", "none")
             ELSE IF ~storeOk
                  THEN Outcome(table, merged, "patch", "StoreError")
             ELSE Outcome(patch_object(table, obj[1].key, merged), merged,
                          "patch", "none")
    ELSE IF ~storeOk \/ ~UniqueUrlHolds(table, url)
         THEN Outcome(table, entry, "insert", "StoreError")
         ELSE Outcome(post_object(table, [url |-> url, source |-> "civitai.com",
                                          data |-> entry, state |-> "full"]),
                      entry, "insert", "none")

\* lines 84-102: post_or_patch_model_entry from the result obj of its
\* lookup on: the graft reads the record that was looked up, the writes go
\* to the table as it is by then
write_after_lookup(table, obj, url, entry, storeOk) ==
    IF obj # <<>>
    THEN LET reference_entry == obj[1].row.data
             mvs == Graft(reference_entry.modelVersions, 1, entry.modelVersions)
             patched == Len(mvs) > Len(entry.modelVersions)
             merged == [entry EXCEPT !.modelVersions = mvs]
         IN  IF ~patched THEN Outcome(table, merged, "none", "none")
             ELSE IF ~HasAttr("model", "id")
                  THEN Outcome(table, merged, "none", "AttributeError")
             ELSE IF ~storeOk
                  THEN Outcome(table, merged, "patch", "StoreError")
             ELSE Outcome(patch_object(table, obj[1].key, merged), merged,
                          "patch", "none")
    ELSE IF ~storeOk \/ ~UniqueUrlHolds(table, url)
         THEN Outcome(table, entry, "insert", "StoreError")
         ELSE Outcome(post_object(table, [url |-> url, source |-> "civitai.com",
                                          data |-> entry, state |-> "full"]),
                      entry, "insert", "none")

raceRest == <<resolveVars, imageTable, disk, image_folder, last, sameAsPrev, crawlVars,
              scenario, fetchVars, collectVars>>

\* lines 80-83: the callback of a crawl calls the reconciler for an entry,
\* which looks the url up; overlap: the other invocation is between its
\* lookup and its write
lookup(p) ==
    /\ driver = "race"
    /\ calls[p].at = "idle"
    /\ \E entry \in ModelEntries :
          LET q == Other(p)
              mine == [NoInvocation EXCEPT
                          !.at = "looked", !.entry = entry,
                          !.obj = get_objects_by_filtermasks(modelTable, ModelUrl(entry.id)),
                          !.overlap = (calls[q].at = "looked")]
          IN  calls' = [calls EXCEPT ![p] = mine,
                                     ![q].overlap = @ \/ calls[q].at = "looked"]
    /\ UNCHANGED <<modelTable, raceRest>>

\* lines 84-102 and 62-65: the invocation goes on from its lookup to its
\* write; an exception is caught by the callback, whose handler may raise
write(p) ==
    /\ driver = "race"
    /\ calls[p].at = "looked"
    /\ \E storeOk \in BOOLEAN :
          LET c == calls[p]
              out == write_after_lookup(modelTable, c.obj, ModelUrl(c.entry.id),
                                        c.entry, storeOk)
          IN  /\ modelTable' = out.table
              /\ calls' = [calls EXCEPT ![p] =
                              [c EXCEPT !.at = "done", !.merged = out.entry,
                                        !.wrote = out.wrote, !.raised = out.raised,
                                        !.escaped = Escapes(c.entry, out.raised)]]
    /\ UNCHANGED raceRest

\* the stores of models a crawl leaves: no record or the record of an entry
StoredTables ==
    {<<>>} \cup {post_object(<<>>, [url |-> ModelUrl(entry.id), source |-> "civitai.com",
                                   data |-> entry, state |-> "full"]) :
                   entry \in ModelEntries}

InitLocals ==
    /\ calls = [p \in Invocations |-> NoInvocation]
    /\ imageTable = <<>>
    /\ disk = {}
    /\ last = NoCall
    /\ sameAsPrev = FALSE
    /\ pc = "idle"
    /\ next_url = <<>>
    /\ current_try = 1
    /\ batchLeft = 0
    /\ pageNo = 0
    /\ result = <<>>
    /\ document = <<>>
    /\ first_try = 1
    /\ gets = 0
    /\ waits = <<>>
    /\ answer = "none"
    /\ fetched = "none"
    /\ rested = FALSE
    /\ InitResolver

InitStore == modelTable = <<>> /\ InitLocals

\* the asset type the drivers are run with and the image folder the scraper
\* is constructed with; only the image reconciler reads the folder
Init ==
    /\ InitStore
    /\ asset_type \in {"models", "images"}
    /\ image_folder \in (IF asset_type = "models" THEN {<<>>}
                         ELSE {<<>>, <<"images">>})
    /\ scenario = NoScenario
    /\ driver = "scraper"
    /\ impl = "script"
    /\ hash_file = <<>>
    /\ logger = TRUE
    /\ images = <<>>
    /\ image_file = "missing"
    /\ response_path = <<"raw_responses">>

Next == ReconcileModel \/ ReconcileImage

Spec == Init /\ [][Next]_vars

NextCrawl == scrape_to_database \/ safely_fetch_api_data \/ callback \/ callback_return

SpecCrawl == Init /\ [][NextCrawl]_vars

\* the resolver of a model folder: either implementation, its wrapper
\* constructed with or without response_output_path
InitResolve ==
    /\ InitStore
    /\ asset_type = "models"
    /\ image_folder = <<>>
    /\ scenario = NoScenario
    /\ driver = "resolve"
    /\ impl \in {"method", "script"}
    /\ hash_file \in {<<>>, <<Foreign>>}
    /\ logger \in Loggers(impl)
    /\ images \in ResolverImages(impl)
    /\ image_file = "missing"
    /\ response_path \in {<<>>, <<"raw_responses">>}

NextResolve ==
    \/ download_data_for_model_file
    \/ handle_model_version_metadata
    \/ safely_fetch_api_data
    \/ take_model_version_metadata
    \/ handle_model_metadata
    \/ take_model_metadata
    \/ handle_cover_image
    \/ download_try
    \/ check_connection
    \/ return_data

SpecResolve == InitResolve /\ [][NextResolve]_vars

\* a scraper that crawls and imports response files into one store
InitImport ==
    /\ InitStore
    /\ asset_type \in {"models", "images"}
    /\ image_folder = <<>>
    /\ scenario = NoScenario
    /\ driver = "import"
    /\ impl = "script"
    /\ hash_file = <<>>
    /\ logger = TRUE
    /\ images = <<>>
    /\ image_file = "missing"
    /\ response_path = <<"raw_responses">>

NextImport ==
    \/ ReconcileModel
    \/ ReconcileImage
    \/ import_response_file
    \/ import_item

SpecImport == InitImport /\ [][NextImport]_vars

\* two crawls of models on one store
InitRace ==
    /\ InitLocals
    /\ modelTable \in StoredTables
    /\ asset_type = "models"
    /\ image_folder = <<>>
    /\ scenario = NoScenario
    /\ driver = "race"
    /\ impl = "script"
    /\ hash_file = <<>>
    /\ logger = TRUE
    /\ images = <<>>
    /\ image_file = "missing"
    /\ response_path = <<>>

NextRace == \E p \in Invocations : lookup(p) \/ write(p)

SpecRace == InitRace /\ [][NextRace]_vars

\* the downloader alone, on a version document with or without an image
\* and a path with or without a file
InitDownload ==
    /\ InitStore
    /\ asset_type = "models"
    /\ image_folder = <<>>
    /\ scenario = NoScenario
    /\ driver = "download"
    /\ impl \in {"method", "script"}
    /\ hash_file = <<>>
    /\ logger \in Loggers(impl)
    /\ images \in Images
    /\ image_file \in {"missing", "corrupt", "healthy"}
    /\ response_path = <<>>

NextDownload ==
    \/ download_image_for_model_file
    \/ download_try
    \/ check_connection

SpecDownload == InitDownload /\ [][NextDownload]_vars

\* the probe finds a connection and the loop of the downloader goes on
Connected == check_connection /\ dpc' = "loop"

\* the downloader runs on, and a probe that is made again and again finds
\* a connection at last
SpecDownloadFair ==
    /\ SpecDownload
    /\ WF_vars(download_try)
    /\ SF_vars(Connected)

\* the wrapper alone, constructed with or without response_output_path
InitWrapper ==
    /\ InitStore
    /\ asset_type \in {"models", "images"}
    /\ image_folder = <<>>
    /\ scenario = NoScenario
    /\ response_path \in {<<>>, <<"raw_responses">>}
    /\ hash_file = <<>>
    /\ logger = TRUE
    /\ images = <<>>
    /\ image_file = "missing"

\* the fetcher alone, of either wrapper
InitFetch == InitWrapper /\ driver = "fetch" /\ impl \in {"method", "script"}

NextFetch == fetch_call \/ safely_fetch_api_data

SpecFetch == InitFetch /\ [][NextFetch]_vars

InitCollect == InitWrapper /\ driver = "collect" /\ impl = "script"

NextCollect ==
    scrape_available_asset_metadata \/ safely_fetch_api_data \/ collect \/ callback_return

SpecCollect == InitCollect /\ [][NextCollect]_vars

\* the steps of a running crawl: the interpreter runs the loop of
\* collect_assets_via_api on, a GET returns or raises, the callback returns
CrawlStep == safely_fetch_api_data \/ collect \/ callback_return

SpecCollectFair == SpecCollect /\ WF_vars(CrawlStep)

\* a catalog of two pages: page 1 holds one model, page 2 the same model
\* with one more version
TwoPageCatalogs ==
    {c \in [page1 : ModelEntries, page2 : ModelEntries] :
        /\ c.page1.id = c.page2.id
        /\ \E x \in VersionIds \ VersionIdSet(c.page1.modelVersions) :
               VersionIdSet(c.page2.modelVersions) =
                   VersionIdSet(c.page1.modelVersions) \cup {x}}

InitTwoPage ==
    /\ InitStore
    /\ asset_type = "models"
    /\ image_folder = <<>>
    /\ scenario \in {<<c>> : c \in TwoPageCatalogs}
    /\ driver = "scraper"
    /\ impl = "script"
    /\ hash_file = <<>>
    /\ logger = TRUE
    /\ images = <<>>
    /\ image_file = "missing"
    /\ response_path = <<"raw_responses">>

SpecTwoPage == InitTwoPage /\ [][NextCrawl]_vars

\* a catalog of two pages of images: one image on each page
TwoPageImageCatalogs ==
    {c \in [page1 : ImageEntries, page2 : ImageEntries] :
        c.page1.id # NoId /\ c.page2.id # NoId /\ c.page1.id # c.page2.id}

\* the process of the crawl is terminated from outside while the loop holds
\* a url to go on with
interrupt ==
    /\ driver = "scraper"
    /\ pc \in {"fetch", "callback"}
    /\ next_url # <<>>
    /\ pc' = "killed"
    /\ UNCHANGED <<storeVars, image_folder, last, sameAsPrev, asset_type, next_url,
                   current_try, batchLeft, pageNo, scenario, fetchVars, collectVars>>
    /\ UNCHANGED <<resolveVars, calls>>

\* the script is started again with start_url set to the url the terminated
\* crawl was to go on with; nothing but the store is left of the first run
resume ==
    /\ driver = "scraper"
    /\ pc = "killed"
    /\ collect_assets_via_api(next_url)
    /\ last' = NoCall
    /\ sameAsPrev' = FALSE
    /\ UNCHANGED <<storeVars, image_folder, asset_type, scenario, driver, result,
                   response_path>>
    /\ UNCHANGED <<resolveVars, calls>>

InitResume ==
    /\ InitStore
    /\ asset_type \in {"models", "images"}
    /\ image_folder = <<>>
    /\ scenario \in {<<c>> : c \in (IF asset_type = "models" THEN TwoPageCatalogs
                                      ELSE TwoPageImageCatalogs)}
    /\ driver = "scraper"
    /\ impl = "script"
    /\ hash_file = <<>>
    /\ logger = TRUE
    /\ images = <<>>
    /\ image_file = "missing"
    /\ response_path = <<"raw_responses">>

NextResume == NextCrawl \/ interrupt \/ resume

SpecResume == InitResume /\ [][NextResume]_vars

(***************************************************************************)
(* Properties.                                                             *)
(***************************************************************************)
\* the version ids stored under a url
StoredIds(table, url) ==
    UNION {VersionIdSet(table[i].data.modelVersions) :
              i \in {j \in DOMAIN table : table[j].url = url}}

\* the version ids the last call found stored, and those it was given
BeforeIds == VersionIdSet(last.before[1].data.modelVersions)
IncomingIds == VersionIdSet(last.entry.modelVersions)

\* the last call reconciled a model entry whose url had a record
MergedExisting == last.variant = "model" /\ last.before # <<>>

\* C1: across every call of post_or_patch_model_entry the set of version ids
\* stored under each model url only grows: the set after the call contains
\* the set before it.
C1_VersionIdsNeverLost ==
    [][\A id \in ModelIds :
          StoredIds(modelTable, ModelUrl(id)) \subseteq StoredIds(modelTable', ModelUrl(id))]_vars

\* a call met a stored record with a version id the incoming entry lacks
C1_Witness == MergedExisting /\ ~(BeforeIds \subseteq IncomingIds)

\* C2: after a call that reconciles an incoming entry with version ids I
\* against a stored record with version ids S and that no store error
\* interrupts, the stored record has exactly the version ids S union I.
C2_StoredIsUnion ==
    (MergedExisting /\ last.raised = "none")
        => StoredIds(modelTable, last.url) = BeforeIds \cup IncomingIds

\* C3: when the crawl of the two-page catalog has returned, the store holds
\* exactly one record for the model and its version ids are the union of the
\* version ids of the two pages.
C3_TwoPageUnion ==
    (scenario # NoScenario /\ pc = "done")
        => /\ Len(get_objects_by_filtermasks(modelTable, ModelUrl(scenario[1].page1.id))) = 1
           /\ StoredIds(modelTable, ModelUrl(scenario[1].page1.id)) =
                  VersionIdSet(scenario[1].page1.modelVersions)
                      \cup VersionIdSet(scenario[1].page2.modelVersions)

\* C4: when the same entry is reconciled for the same url twice in a row and
\* the url has a record at the second call, the second call issues no patch
\* write and leaves the stored version ids as the first call left them.
C4_Idempotent ==
    (sameAsPrev /\ MergedExisting)
        => /\ last.wrote # "patch"
           /\ StoredIds(modelTable, last.url) = BeforeIds

\* the same entry was reconciled twice in a row against a record holding a
\* version id the entry lacks
C4_Witness == sameAsPrev /\ MergedExisting /\ ~(BeforeIds \subseteq IncomingIds)

\* no two rows of the table share a url
UrlsUnique(table) ==
    \A i, j \in DOMAIN table : table[i].url = table[j].url => i = j

\* C5: each table holds at most one record per url, and an insert is issued
\* only by a call whose lookup found no record for the url.
C5_OneRecordPerUrl ==
    /\ UrlsUnique(modelTable)
    /\ UrlsUnique(imageTable)
    /\ last.wrote = "insert" => last.before = <<>>

\* an image url was reconciled again while two image urls are stored
C5_Witness ==
    /\ last.variant = "image" /\ last.before # <<>>
    /\ Len(imageTable) = 2

\* C6: a call of post_or_patch_image_entry for a url that has a record
\* leaves the image table and the downloaded files unchanged and issues no
\* write and no download.
C6_ImageFirstWriteWins ==
    [][(last'.variant = "image" /\ last'.before # <<>>)
          => /\ imageTable' = imageTable
             /\ disk' = disk
             /\ last'.wrote = "none"
             /\ ~last'.downloaded]_vars

\* an image url with a record was reconciled with another payload while
\* images are downloaded
C6_Witness ==
    /\ last.variant = "image" /\ last.before # <<>>
    /\ last.entry # last.before[1].data
    /\ image_folder # <<>>

\* C7: a call that reconciles an existing model record issues a patch write
\* if and only if some stored version id is absent from the incoming entry,
\* and without a graft the table is as it was.
C7_PatchIffGraft ==
    MergedExisting
        => /\ (last.wrote = "patch") <=> ~(BeforeIds \subseteq IncomingIds)
           /\ (BeforeIds \subseteq IncomingIds)
                  => get_objects_by_filtermasks(modelTable, last.url)[1].row = last.before[1]

\* the payload a merge is to store: the incoming entry followed by the
\* stored versions whose id it lacks, in stored order
MergedPayload(stored, entry) ==
    [entry EXCEPT !.modelVersions =
        entry.modelVersions \o
        SelectSeq(stored.modelVersions,
                  LAMBDA mv : mv.id \notin VersionIdSet(entry.modelVersions))]

\* C8: after a merge with a graft that no store error interrupts, the stored
\* payload is the incoming entry with the stored-only versions appended in
\* stored order.
C8_PatchedPayload ==
    (MergedExisting /\ ~(BeforeIds \subseteq IncomingIds) /\ last.raised # "StoreError")
        => get_objects_by_filtermasks(modelTable, last.url)[1].row.data =
               MergedPayload(last.before[1].data, last.entry)

\* the exceptions of a reconciliation of an item that has an id
ItemFailures == {"StoreError", "AttributeError", "DownloadError"}

C10_MalformedItemSkipped ==
    [][(pc = "callback" /\ batchLeft > 0 /\ last'.entry.id = NoId)
          => /\ pc' = "callback"
             /\ batchLeft' = batchLeft - 1]_vars

(***************************************************************************)
(* Fetcher.                                                                *)
(***************************************************************************)
\* a call of safely_fetch_api_data has ended and the answer to its last GET
\* was an undecodable body: every answer to the call was one
EndedUndecodable == pc \in {"returned", "raised"} /\ answer = "undecodable"

\* C11 (as stated): a call of safely_fetch_api_data to which the transport
\* gives only undecodable bodies issues exactly max_tries GETs, returns the
\* empty result and raises nothing
C11_MaxTriesGets ==
    EndedUndecodable =>
        pc = "returned" /\ fetched = "EmptyDict" /\ gets = max_tries

\* C11 (amended): such a call issues the GETs from its current_try
\* argument up to max_tries, max_tries - current_try + 1 of them: max_tries
\* when it is entered with current_try = 1 as the crawl enters it, one
\* with the default current_try = 3; it returns {} and raises nothing
C11_RemainingTriesGets ==
    EndedUndecodable =>
        pc = "returned" /\ fetched = "EmptyDict" /\ gets = max_tries - first_try + 1

C11_Witness ==
    EndedUndecodable /\ first_try = 1 /\ gets = max_tries /\ fetched = "EmptyDict"

\* C12: no exception leaves safely_fetch_api_data: a connection error of
\* the GET does not end the call with an exception
C12_ConnectionErrorContained == ~(pc = "raised" /\ answer = "ConnectionError")

\* C13: after a document with the error indicator the call has returned,
\* without another GET, a result that is empty and not the document
C13_ErrorDocumentNoRetry ==
    answer = "error" =>
        pc = "returned" /\ fetched \in {"None", "EmptyDict"} /\ gets = current_try - first_try + 1

C13_Witness ==
    answer = "error" /\ pc = "returned" /\ fetched = "None" /\ gets = 1 /\ first_try = 1

(***************************************************************************)
(* Crawl.                                                                  *)
(***************************************************************************)
\* C14: a failure result of the fetcher, {} after the last decode retry or
\* None for a document with the error indicator, ends the crawl without an
\* exception, without a callback and without another fetch
C14_FailureResultEndsCrawl ==
    (driver = "collect" /\ fetched \in {"EmptyDict", "None"}) => pc = "done"

\* the cursor the page under the callback came with
pageCursor == IF document = <<>> THEN <<>> ELSE document[1].nextPage

\* s is the beginning of t
IsPrefix(s, t) == Len(s) <= Len(t) /\ SubSeq(t, 1, Len(s)) = s

\* the url the crawl goes on with carries the cursor of the page unchanged
\* at its beginning and, after it, "limit" and then "nsfw" where the cursor
\* lacked them
Completed(raw, url) ==
    /\ url.page = raw.page
    /\ IsPrefix(raw.query, url.query)
    /\ Range(url.query) = Range(raw.query) \cup {"limit", "nsfw"}
    /\ Len(url.query) = Cardinality(Range(url.query))
    /\ \A i, j \in DOMAIN url.query :
           (i > Len(raw.query) /\ url.query[i] = "limit" /\ url.query[j] = "nsfw"
            /\ j > Len(raw.query)) => i < j

\* C15: the next url is the nextPage of the page with "&limit=100" and
\* "&nsfw=true" appended where it lacks them and unchanged when it has
\* both, so every url fetched after the first carries both parameters
C15_CursorNormalised ==
    /\ [](driver = "collect" /\ pc = "callback" =>
             IF pageCursor = <<>> THEN next_url = <<>>
             ELSE /\ next_url # <<>>
                  /\ Completed(pageCursor[1], next_url[1])
                  /\ {"limit", "nsfw"} \subseteq Range(pageCursor[1].query)
                        => next_url = pageCursor)
    /\ [][pc = "callback" /\ pc' = "fetch" =>
             {"limit", "nsfw"} \subseteq Range(next_url'[1].query)]_vars

C15_Witness ==
    /\ driver = "collect" /\ pc = "callback" /\ pageCursor # <<>>
    /\ pageCursor[1].query = <<"nsfw">>
    /\ next_url[1].query = <<"nsfw", "limit">>

\* the crawl has ended
Ended == pc \in {"done", "raised"}

\* C16: the crawl ends, and its cursor alone decides where: while the page
\* under the callback came with a nextPage the loop goes on to that page,
\* whatever the number of pages so far; after the first page without one it
\* ends; when no fetch failed it ends in no other way
C16_CursorDrivenTermination ==
    /\ (pc = "fetch") ~> Ended
    /\ [][pc = "callback" /\ pc' # "callback" =>
             IF pageCursor = <<>> THEN pc' = "done"
             ELSE pc' = "fetch" /\ pageNo' = pageCursor[1].page]_vars
    /\ [](driver = "collect" /\ Ended /\ answer = "none" =>
             pc = "done" /\ next_url = <<>>)

C16_Witness ==
    /\ driver = "collect" /\ pc = "done" /\ answer = "none"
    /\ Len(result) > 1 /\ result[1] = 1 /\ result[Len(result)] = MaxPages

\* the number of items of result that came with the page
Collected(page) == Cardinality({i \in DOMAIN result : result[i] = page})

\* C17: the callback is called once for every page fetched, with the items
\* of that page, and has returned before the next page is fetched; the
\* pages are handled in the order of the cursor chain
C17_OneCallbackPerPage ==
    /\ [][pc = "callback" /\ pc' # "callback" =>
             batchLeft = 0 /\ Collected(pageNo) = document[1].items]_vars
    /\ [][pc = "fetch" /\ pc' = "callback" =>
             batchLeft' = document'[1].items /\ Collected(pageNo) = 0]_vars
    /\ [](driver = "collect" =>
             /\ \A i, j \in DOMAIN result : i < j => result[i] <= result[j]
             /\ pc = "fetch" => batchLeft = 0 /\ \A i \in DOMAIN result : result[i] < pageNo)

C17_Witness ==
    /\ driver = "collect" /\ pc = "fetch" /\ pageNo = MaxPages
    /\ Collected(MaxPages - 1) = MaxItems

\* what the claim compares of a store: the urls of its records and, for a
\* model, the ids of the versions stored with it
Contents(variant, table) ==
    {[url |-> table[i].url,
      versions |-> IF variant = "models"
                   THEN VersionIdSet(table[i].data.modelVersions) ELSE {}] :
        i \in DOMAIN table}

\* the store an uninterrupted crawl of the catalog ends with
Uninterrupted(variant, c) ==
    IF variant = "models"
    THEN Contents(variant,
             post_or_patch_model_entry(
                 post_or_patch_model_entry(<<>>, ModelUrl(c.page1.id), c.page1, TRUE).table,
                 ModelUrl(c.page2.id), c.page2, TRUE).table)
    ELSE Contents(variant,
             post_or_patch_image_entry(
                 post_or_patch_image_entry(<<>>, {}, <<>>, ImageUrl(c.page1.id),
                                           c.page1, TRUE, TRUE).table,
                 {}, <<>>, ImageUrl(c.page2.id), c.page2, TRUE, TRUE).table)

\* C18: a crawl that was interrupted and started again at the url it was
\* to go on with ends with the store of an uninterrupted crawl of the catalog
C18_ResumedStoreSame ==
    (scenario # NoScenario /\ pc = "done") =>
        Contents(asset_type, IF asset_type = "models" THEN modelTable ELSE imageTable)
            = Uninterrupted(asset_type, scenario[1])

(***************************************************************************)
(* Rate limit and resolver.                                                *)
(***************************************************************************)
\* C19: every GET of a crawl or of the resolver is issued after a wait:
\* where a GET is about to be issued, a sleep has elapsed since the GET
\* before it
C19_GetAfterWait == pc \in {"fetch", "get"} => rested

\* C20: a call of the resolver with a path that is no file, or whose
\* extension is outside the list, returns four absent results and does
\* nothing else: no hash is computed, no sidecar written, no fetch issued
C20_InvalidPathNoEffect ==
    [][(/\ driver = "resolve"
        /\ rpc \in {"idle", "done", "raised"}
        /\ \/ ~model_file_path'.exists
           \/ Lower(model_file_path'.ext) \notin MODEL_EXTENSIONS)
       => /\ rpc' = "done"
          /\ returned' = <<AllAbsent>>
          /\ ~hashed'
          /\ exc' = "none"
          /\ UNCHANGED <<sidecarVars, callVars>>]_vars

C20_Witness ==
    /\ rpc = "done" /\ returned = <<AllAbsent>>
    /\ model_file_path = [exists |-> TRUE, ext |-> ".txt"]

\* the call of the resolver is for a file that passes the preconditions
ValidPath(p) == p.exists /\ Lower(p.ext) \in MODEL_EXTENSIONS

\* a step that enters download_data_for_model_file
Entered == driver = "resolve" /\ rpc \in {"idle", "done", "raised"} /\ rpc' # rpc

\* C21: a hash sidecar that exists is read, not recomputed and never
\* rewritten; without one the SHA-256 of the file is computed and, with
\* save_hash, written, so that the sidecar then holds the hash the call
\* returns
C21_HashCached ==
    /\ [][Entered /\ ValidPath(model_file_path') =>
             IF hash_file # <<>>
             THEN hash' = hash_file /\ ~hashed' /\ hash_file' = hash_file
             ELSE /\ hash' = <<Sha>> /\ hashed'
                  /\ hash_file' = (IF flags'.save_hash THEN <<Sha>> ELSE <<>>)]_vars
    /\ [][hash_file # <<>> => hash_file' = hash_file]_vars
    /\ [](rpc = "done" /\ ValidPath(model_file_path) =>
             /\ returned[1].hash = hash
             /\ hash_file # <<>> => returned[1].hash = hash_file
             /\ flags.save_hash => hash_file = returned[1].hash)

C21_Witness ==
    /\ rpc = "done" /\ ValidPath(model_file_path)
    /\ returned[1].hash = <<Foreign>> /\ hash_file = <<Foreign>> /\ ~hashed

\* the by-hash fetch of the call gave a document whose "files" do not name
\* the local file, and the file name check is on
Mismatched ==
    /\ "version" \in issued
    /\ rpc \notin {"version", "version_fetch"}
    /\ ~flags.skip_filename_check
    /\ model_version_metadata.kind = "document"
    /\ ~model_version_metadata.name_ok

\* C22: version metadata that fails the file name check is neither saved to
\* the sidecar nor returned as the version metadata of the file, and neither
\* the model endpoint is fetched nor the cover image downloaded with it
C22_MismatchNotTrusted ==
    Mismatched =>
        /\ version_file = <<>>
        /\ "model" \notin issued
        /\ dpc = "idle"
        /\ rpc = "done" => ~Truthy(returned[1].model_version_metadata)

\* no version metadata and no model sidecar: the sidecar of the version is
\* missing, the by-hash fetch gave nothing and the model sidecar is missing
NoMetadata ==
    /\ "version" \in issued
    /\ rpc \notin {"version", "version_fetch"}
    /\ exc # "FetchError"
    /\ ~Truthy(model_version_metadata)
    /\ model_file = <<>>

\* C23: without version metadata and without a model sidecar the model
\* endpoint is not fetched and the call ends without an error
C23_NoMetadataCompletes ==
    NoMetadata => "model" \notin issued /\ rpc # "raised"

\* C24: each step of the resolver is skipped when its sidecar exists: no
\* hash is computed with a hash sidecar, no by-hash fetch is issued with a
\* version sidecar, no model fetch with a model sidecar, and the value of
\* the sidecar is the one the call holds and returns; a call that finds all
\* three sidecars computes no hash and fetches nothing
C24_SidecarsSkipSteps ==
    /\ [][Entered /\ ValidPath(model_file_path') /\ hash_file # <<>> =>
             ~hashed' /\ hash' = hash_file]_vars
    /\ [][rpc = "version" /\ rpc' # rpc /\ version_file # <<>> =>
             /\ issued' = issued /\ pc' = pc
             /\ model_version_metadata' = version_file[1]]_vars
    /\ [][rpc = "model" /\ rpc' # rpc /\ model_file # <<>> =>
             /\ issued' = issued /\ pc' = pc
             /\ model_metadata' = model_file[1]]_vars
    /\ [][driver = "resolve" /\ pc' = "get" /\ pc # "get" =>
             \/ rpc = "version" /\ version_file = <<>> /\ issued' = issued \cup {"version"}
             \/ rpc = "model" /\ model_file = <<>> /\ issued' = issued \cup {"model"}]_vars
    /\ [](rpc = "done" /\ ValidPath(model_file_path) =>
             /\ ~hashed => returned[1].hash = hash_file
             /\ "version" \notin issued =>
                    returned[1].model_version_metadata = version_file[1]
             /\ "model" \notin issued /\ model_file # <<>> =>
                    returned[1].model_metadata = model_file[1])

C24_Witness ==
    /\ rpc = "done" /\ ValidPath(model_file_path)
    /\ ~hashed /\ issued = {}
    /\ hash_file = <<Sha>> /\ returned[1].hash = <<Sha>>
    /\ version_file # <<>> /\ returned[1].model_version_metadata = version_file[1]
    /\ model_file # <<>> /\ returned[1].model_metadata = model_file[1]

\* a call of the downloader on a version document whose first image has an
\* extension that IMG_EXTS has not
Unsupported == dpc # "idle" /\ images # <<>> /\ images[1].ext \notin IMG_EXTS

\* C25: an image with an extension outside IMG_EXTS is not downloaded: the
\* call returns None and raises nothing, with or without a logger
C25_UnsupportedExtensionAbsent ==
    Unsupported =>
        /\ requested = <<>>
        /\ dpc = "returned"
        /\ image_path = "None"

\* the width the k-th download of a call asks for, for a url with a width
\* part
LadderWidth(k) == IF k = 1 THEN <<Native>> ELSE <<IMG_WIDTHS[k - 1]>>

\* C26 as stated: the first download asks for the image at its own width
\* and the k-th download after it for the width IMG_WIDTHS[k - 1]
C26_EveryTryAsksWidth ==
    \A k \in 1..Len(requested) :
        IF k = 1 THEN requested[k] \in {<<Native>>, <<>>}
        ELSE requested[k] = LadderWidth(k)

\* C26: a call downloads at most 1 + len(IMG_WIDTHS) times, never once the
\* file passes the health check; for a url with a "width=" part the
\* downloads ask for the native width and then for 1080, 720, 576, 480, and
\* a url without such a part is asked for as it is every time
C26_LadderBounded ==
    /\ [](Len(requested) <= 1 + Len(IMG_WIDTHS))
    /\ [](\A k \in 1..Len(requested) :
             requested[k] = (IF images[1].width_part THEN LadderWidth(k) ELSE <<>>))
    /\ [][Len(requested') > Len(requested) =>
             ~check_image_health(image_file) /\ Len(requested') = Len(requested) + 1]_vars

C26_Witness ==
    /\ dpc = "returned"
    /\ requested = <<<<Native>>, <<"1080">>, <<"720">>, <<"576">>, <<"480">>>>

\* C27: the call returns the path only for a file that passes the health
\* check, and None for a file that is still unhealthy after the last try
C27_UnhealthyReturnsAbsent ==
    driver = "download" /\ dpc = "returned" =>
        /\ image_path = "image" => check_image_health(image_file)
        /\ requested # <<>> /\ ~check_image_health(image_file) => image_path = "None"

\* C28: a download that left the file unhealthy and was followed by a probe
\* without a connection does not count as a try: with an unhealthy file the
\* tries are the downloads made with a connection
C28_OutageNotCounted ==
    driver = "download" /\ dpc \in {"loop", "returned"} /\ images # <<>>
        /\ ~check_image_health(image_file) =>
        tries = Len(requested) - outages

\* a step that enters the downloader
Called == driver = "download" /\ dpc \in {"idle", "returned", "raised"} /\ dpc' = "loop"

\* C29: a call that finds a healthy file at the path downloads nothing,
\* probes no connection, leaves the file as it is and returns the path
C29_HealthyIdempotent ==
    /\ [][Called /\ check_image_health(image_file) =>
             image_file' = image_file /\ requested' = <<>> /\ ~probed']_vars
    /\ [][dpc = "loop" /\ requested = <<>> /\ check_image_health(image_file) =>
             /\ dpc' = "returned" /\ image_path' = "image"
             /\ image_file' = image_file /\ requested' = <<>> /\ ~probed']_vars
    /\ [](dpc = "loop" /\ requested = <<>> => ~probed /\ tries = 0)

C29_Witness ==
    /\ driver = "download" /\ dpc = "returned"
    /\ check_image_health(image_file)
    /\ requested = <<>> /\ ~probed /\ image_path = "image"

\* C30 as stated: within a call the wait before a retry is twice the wait
\* before the retry that preceded it
C30_WaitDoubles ==
    \A k \in 1..(Len(waits) - 1) : waits[k + 1] = 2 * waits[k]

\* C30: within a call the wait before every retry is the same: twice
\* self.wait in the wrapper of src/model, self.wait in the wrapper of
\* src/civitai_api_wrapper.py; one wait is made per retry
C30_WaitConstant ==
    driver = "fetch" =>
        /\ Len(waits) = current_try - first_try
        /\ \A k \in 1..Len(waits) : waits[k] = (IF impl = "script" THEN 2 ELSE 1)

C30_Witness ==
    /\ driver = "fetch" /\ pc = "returned" /\ fetched = "document"
    /\ Len(waits) = 2 /\ waits[1] = waits[2]

\* C31: a response that decodes to a document is returned by the call also
\* when the write of the raw response to response_path fails: the call
\* raises nothing
C31_ArchiveBestEffort ==
    driver = "fetch" /\ answer = "document" /\ pc \in {"returned", "raised"} =>
        pc = "returned" /\ fetched = "document"

\* C33: a call of the resolver, which passes the url alone (current_try =
\* 3, max_tries = 3), makes one GET and no retry, also for a body that does
\* not decode
C33_DefaultArgsOneGet ==
    /\ [](driver = "resolve" =>
             /\ gets <= 1 /\ waits = <<>>
             /\ pc = "get" => gets = 0 /\ current_try = default_try
             /\ pc \in {"returned", "raised"} => gets = 1
             /\ pc = "returned" /\ answer = "undecodable" => fetched = "EmptyDict")
    /\ [][driver = "resolve" /\ pc = "get" => pc' # "get"]_vars

C33_Witness ==
    /\ driver = "resolve" /\ rpc = "version_fetch"
    /\ pc = "returned" /\ answer = "undecodable" /\ fetched = "EmptyDict"
    /\ gets = 1 /\ waits = <<>>

\* the columns of a record that a write of the reconcilers sets once
Fixed(row) == [url |-> row.url, source |-> row.source, state |-> row.state]

\* every record of the table is full and from civitai.com
AllFull(table) ==
    \A i \in DOMAIN table : table[i].state = "full" /\ table[i].source = "civitai.com"

\* C32: every record of the store has the state "full" and the source
\* "civitai.com", and no step changes the position, url, source or state of
\* a record that is stored: a write to a stored record changes its data
\* alone
C32_RecordsFullAndFixed ==
    /\ [](AllFull(modelTable) /\ AllFull(imageTable))
    /\ [][\A i \in DOMAIN modelTable :
             i \in DOMAIN modelTable' /\ Fixed(modelTable'[i]) = Fixed(modelTable[i])]_vars
    /\ [][\A i \in DOMAIN imageTable :
             /\ i \in DOMAIN imageTable'
             /\ Fixed(imageTable'[i]) = Fixed(imageTable[i])
             /\ imageTable'[i].path = imageTable[i].path]_vars

C32_Witness ==
    /\ Len(modelTable) = 1
    /\ modelTable[1].state = "full" /\ modelTable[1].source = "civitai.com"
    /\ last.variant = "model" /\ last.before # <<>>
    /\ last.merged # last.entry /\ last.raised = "AttributeError"

\* a call of the downloader is running
Downloading == dpc \in {"loop", "probe", "wait"}

\* C34: with a probe that finds a connection at last, every call of the
\* downloader ends, after at most 1 + len(IMG_WIDTHS) downloads, also when
\* every download leaves an unhealthy file
C34_DownloadTerminates ==
    /\ Downloading ~> (dpc = "returned" /\ Len(requested) <= 1 + Len(IMG_WIDTHS))
    /\ [](Len(requested) <= 1 + Len(IMG_WIDTHS))

C34_Witness ==
    /\ driver = "download" /\ dpc = "returned"
    /\ Len(requested) = 1 + Len(IMG_WIDTHS)
    /\ ~check_image_health(image_file)
    /\ outages > 0

\* the write of an invocation that found no record is an insert
Inserting(p) == calls[p].at = "looked" /\ calls'[p].at = "done" /\ calls[p].obj = <<>>

StoredVersionIds(table) ==
    IF table = <<>> THEN {} ELSE VersionIdSet(table[1].data.modelVersions)

\* C36: with two invocations between lookup and write on the url of a
\* stored record, no step takes a version id from the stored record, and
\* the ids an invocation found stored are stored after it
C36_RacingPatchesKeepIds ==
    /\ [][StoredVersionIds(modelTable) \subseteq StoredVersionIds(modelTable')]_vars
    /\ [](\A p \in Invocations :
             calls[p].at = "done" /\ calls[p].obj # <<>> =>
                 VersionIdSet(calls[p].obj[1].row.data.modelVersions)
                     \subseteq StoredVersionIds(modelTable))

C36_Witness ==
    \A p \in Invocations :
        /\ calls[p].at = "done" /\ calls[p].obj # <<>> /\ calls[p].overlap
        /\ calls[p].merged # calls[p].entry
        /\ VersionIdSet(calls[p].obj[1].row.data.modelVersions)
               \subseteq StoredVersionIds(modelTable)

\* the records of the table that hold the entry of the id
RecordsOf(table, id) == {k \in DOMAIN table : table[k].data.id = id}

\* C37: the url an entry is stored under is the same for the crawl and for
\* the import of a response file, so that the store holds one record for
\* an entry that was crawled and imported
C37_OneKeyPerEntry ==
    /\ \A id \in ModelIds : Cardinality(RecordsOf(modelTable, id)) <= 1
    /\ \A id \in ImageIds : Cardinality(RecordsOf(imageTable, id)) <= 1

====
